---- MODULE Spec2Model ----
(***************************************************************************)
(* The level monitor of examples/effects/level_monitor: an audio effect    *)
(* (LevelMonitor, the producer) that keeps a rolling window of frames and  *)
(* pushes level samples into a ring buffer, and its handle                 *)
(* (LevelMonitorHandle, the consumer) that pops them; and the systems of   *)
(* src/plugins/events/playback.rs that start sounds for play events and    *)
(* keep the KiraPlayingSounds component of the entities.                   *)
(***************************************************************************)
EXTENDS Integers, Sequences, FiniteSets, TLC

(***************************************************************************)
(* Bounds of the model.                                                    *)
(***************************************************************************)
\* Calls of process a behaviour may make.
MaxFrames == 8
\* The length process lets the rolling window reach before it evicts: the
\* literal 2048 of process (mod.rs:75), scaled down so that TLC reaches the
\* eviction.  It stays above N, as 2048 is above SAMPLES.
RawLimit == 6
\* The const generic N of LevelMonitor<N> and LevelSample<N>, the number of
\* frames a sample's window is declared to hold (SAMPLES = 16 in
\* examples/level_monitor.rs, 4 in the scenarios of the specification).
N == 4
\* The capacity of the ring buffer a scenario monitor is constructed with
\* (LevelMonitor::new takes the producer half of any ring buffer).
ScenarioCapacity == 1
\* Monitors built by separate calls of build, and calls of process each of
\* their effects may make.
MaxMonitors == 2
MaxPairFrames == 4
\* Frames (runs of the schedule) of a behaviour of the playback systems, and
\* play events that may be pending at once.
MaxTicks == 2
MaxPending == 2
\* Play events written in a behaviour.
MaxEvents == 4
\* The highest value the clock's tick counter takes, and the runs of
\* playback_sys in a behaviour.
MaxClock == 18
MaxRuns == 2

(***************************************************************************)
(* Program constants.                                                      *)
(***************************************************************************)
SAMPLE_CAPACITY == 4
\* The 10 of `(len - 10).min(0)` in send_sample.
RECENT == 10
\* Stands for usize::MAX: TLC's integers are 32 bits wide, and send_sample
\* only takes the minimum of the wrapped difference and 0.
USIZE_MAX == 2147483647
\* Stands for u64::MAX, the tick playback_sys takes for a channel it has
\* not seen yet.
U64_MAX == 2147483647
STEP_PER_BEAT == 4
STEPS == STEP_PER_BEAT * 4
\* Bits of the u16 a DefaultPattern holds.
PATTERN_BITS == 16
\* 0b1001_0000_1001_0000 and 0b0010_1010_1010_1111
DEFAULT_KICK == 37008
DEFAULT_HAT == 10927

(***************************************************************************)
(* Frames and samples.                                                     *)
(***************************************************************************)
Frame(l, r) == [left |-> l, right |-> r]

\* The frames the host feeds in the general specification.
FrameSet == {Frame(0, 0), Frame(-1, 2)}

\* The k-th frame (from 0) of the scenarios: (k, k).
ScenarioFrame(k) == Frame(k, k)

Abs(x) == IF x < 0 THEN -x ELSE x
Max(a, b) == IF a >= b THEN a ELSE b
Min(a, b) == IF a <= b THEN a ELSE b

\* The value send_sample builds at mod.rs:56-61.
LevelSample(l, r, lp, rp) ==
    [left |-> l, right |-> r, left_peak |-> lp, right_peak |-> rp]

VARIABLES
    overflow_checks, \* the build checks integer overflow (debug profile)
    capacity,        \* capacity of the ring buffer, fixed at construction
    raw,             \* LevelMonitor.raw, the rolling window
    rb,              \* the ring buffer between sample_producer and sample_consumer
    panicked,        \* process has panicked
    op,              \* the operation that ran last
    fed,             \* every frame process was called with, in order
    ret,             \* what the last call of process returned
    pushed,          \* every sample pushed into the ring buffer, in order
    last_get,        \* what the last call of get_sample returned
    popped,          \* every sample get_sample returned, in order
    raw_capacity,    \* capacity of the storage allocated for LevelMonitor.raw
    allocations,     \* heap allocations made inside calls of process
    effect_alive,    \* the effect (and its sample_producer) is not dropped
    dropped_with     \* what was queued and taken when the effect was dropped

\* Two monitors built by separate calls of LevelMonitorBuilder::build.
VARIABLES
    channels,        \* the ring buffers allocated by build, in order
    effects,         \* the effects built: their producer's channel, their window
    handles,         \* the handles built: their consumer's channel
    pair_pushed,     \* per effect, the samples it pushed, in order
    pair_popped      \* per handle, the samples get_sample returned, in order

\* The world of the playback systems.
VARIABLES
    ev_play,         \* Events<KiraPlaySoundEvent>, the events not yet drained
    playing_sounds,  \* per entity, its KiraPlayingSounds component
    commands,        \* per system, the deferred commands it has queued
    ran,             \* the systems that have run in the current frame
    started,         \* per sound handle, the entity and frame it was started for
    stopped,         \* the handles whose sound is in PlaybackState::Stopped
    tick,            \* number of frames (schedule runs) completed
    sys,             \* the system step taken last
    manager,         \* KiraContext.manager is Some (the AudioManager was created)
    ev_written,      \* number of play events written so far
    play_calls,      \* every call of KiraContext::play by do_play_sys, in order
    ctx_result       \* what the last direct call on the KiraContext returned

\* The drum machine of examples/drum_machine.rs.
VARIABLES
    clock,           \* the tick counter of the MainClock
    epoch,           \* how many times the clock was restarted
    last_ticks,      \* the Local<LastTicks> of playback_sys
    assets,          \* per channel, whether its sound asset is loaded
    drum_events,     \* every play event playback_sys has written, in order
    last_run,        \* per channel, what the last run of playback_sys did
    runs,            \* runs of playback_sys so far
    drum_sys,        \* the step of the drum machine taken last
    default_pattern, \* the DefaultPattern given to DrumPattern::from
    drum_pattern     \* the DrumPattern it returned

monitorVars == <<overflow_checks, capacity, raw, rb, panicked, op, fed, ret,
                 pushed, last_get, popped, raw_capacity, allocations,
                 effect_alive, dropped_with>>
pairVars == <<channels, effects, handles, pair_pushed, pair_popped>>
drumVars == <<clock, epoch, last_ticks, assets, drum_events, last_run, runs,
              drum_sys, default_pattern, drum_pattern>>
ecsVars == <<ev_play, playing_sounds, commands, ran, started, stopped, tick, sys,
             manager, ev_written, play_calls, ctx_result>>

vars == <<monitorVars, pairVars, ecsVars, drumVars>>

ZeroSample == LevelSample(0, 0, 0, 0)
NoFrame == [left |-> 0, right |-> 0, none |-> TRUE]
NoReturn == [kind |-> "none", frame |-> NoFrame]
Panic == [kind |-> "panic", frame |-> NoFrame]
Returned(f) == [kind |-> "frame", frame |-> f]
NoResult == [kind |-> "none", sample |-> ZeroSample]
ErrCommandQueueFull == [kind |-> "err", sample |-> ZeroSample]
Ok(s) == [kind |-> "ok", sample |-> s]
\* The value of dropped_with while the effect is alive.
NotDropped == [queue |-> <<>>, taken |-> 0]

(***************************************************************************)
(* Channels of the drum machine.                                           *)
(***************************************************************************)
\* The channel entities, in the order the query of playback_sys gives them.
DrumChannels == {1, 2}
\* No entry in LastTicks for a channel; the entry holding tick t.
NotSeen == [seen |-> FALSE, tick |-> 0]
Seen(t) == [seen |-> TRUE, tick |-> t]
\* The record of a channel in last_run before playback_sys has run.
NoRun == [visited |-> FALSE, recorded |-> NotSeen, skipped |-> FALSE, clock_ticks |-> 0, last |-> NotSeen,
          warned |-> FALSE, underflow |-> FALSE, events |-> <<>>, time |-> 0]

(***************************************************************************)
(* Entities, components and deferred commands of the playback systems.     *)
(***************************************************************************)
\* The entities of the world.
Entities == {1, 2}
\* An Entity id that no entity of the world has (it was despawned).
DespawnedEntity == 3
\* An entity without KiraPlayingSounds; the component holding handles hs.
NoComponent == [present |-> FALSE, handles |-> <<>>]
KiraPlayingSounds(hs) == [present |-> TRUE, handles |-> hs]
\* The deferred command queues of do_play_sys and cleanup_inactive_sounds_sys.
NoCommands == [do_play |-> <<>>, cleanup |-> <<>>]

(***************************************************************************)
(* LevelMonitor::process and LevelMonitor::send_sample.                    *)
(***************************************************************************)
\* raw.push_back(input); if raw.len() > 2048 { raw.pop_front(); }
PushBackEvict(rawq, input) ==
    LET q == Append(rawq, input)
    IN  IF Len(q) > RawLimit THEN Tail(q) ELSE q

\* is_full() that takes a buffer holding `cap` items for one with room.
IsFullOffByOne(rbuf, cap) == Len(rbuf) > cap

\* sample_producer.is_full()
IsFull(rbuf, cap) == Len(rbuf) >= cap

\* `len - 10` on usize overflows when len < 10.
SubOverflows(len) == len < RECENT

\* `len - 10` in a build without overflow checks: it wraps.
WrappingSub(len) ==
    IF len >= RECENT THEN len - RECENT ELSE USIZE_MAX - (RECENT - len) + 1

\* let recent_window = (len - 10).min(0);  The minimum of an unsigned number
\* and 0 is 0 for every len, also for the len >= 10 that the scaled window
\* limit keeps out of reach.
RecentWindow(len) == Min(WrappingSub(len), 0)

\* One iteration of the loop of send_sample: m holds the four running maxima
\* (left_latest, right_latest, left_peak, right_peak), frame is the frame of
\* index count, and latest is the test count > recent_window.
LevelsStep(m, frame, latest) ==
    LevelSample(IF latest THEN Max(m.left, Abs(frame.left)) ELSE m.left,
                IF latest THEN Max(m.right, Abs(frame.right)) ELSE m.right,
                Max(m.left_peak, Abs(frame.left)),
                Max(m.right_peak, Abs(frame.right)))

\* The loop of send_sample over raw.iter(): count is the index of the frame
\* (from 0) and acc the four maxima so far.  Each iteration takes the maxima
\* as a value (m ranges over the one-element set {acc}), like the loop's
\* local variables.
RECURSIVE Levels(_, _, _, _)
Levels(rawq, count, recent_window, acc) ==
    IF count >= Len(rawq)
    THEN acc
    ELSE CHOOSE out \in { Levels(rawq, count + 1, recent_window,
                                 LevelsStep(m, rawq[count + 1], count > recent_window))
                          : m \in {acc} } : TRUE

\* The sample send_sample builds from the window.
ComputeSample(rawq) == Levels(rawq, 0, RecentWindow(Len(rawq)), ZeroSample)

\* sample_producer.push(sample): Err(sample) when the buffer is full.
Push(rbuf, cap, sample) == IF IsFull(rbuf, cap) THEN rbuf ELSE Append(rbuf, sample)

\* send_sample without the is_full() guard, pushing with push_overwrite: on
\* a full buffer the oldest queued sample is displaced.
SendSampleOverwrite(rbuf, cap, rawq, checks) ==
    IF checks /\ SubOverflows(Len(rawq))
    THEN [rb |-> rbuf, pushed |-> FALSE, panicked |-> TRUE]
    ELSE LET kept == IF Len(rbuf) >= cap THEN Tail(rbuf) ELSE rbuf
         IN  [rb |-> Append(kept, ComputeSample(rawq)), pushed |-> TRUE,
              panicked |-> FALSE]

\* send_sample queueing a sample that shares the window's storage: while
\* the buffer is full, the newest queued sample follows the window.
SendSampleShared(rbuf, cap, rawq, checks) ==
    IF Len(rbuf) >= cap
    THEN [rb |-> [rbuf EXCEPT ![Len(rbuf)] = ComputeSample(rawq)],
          pushed |-> FALSE, panicked |-> FALSE]
    ELSE IF checks /\ SubOverflows(Len(rawq))
    THEN [rb |-> rbuf, pushed |-> FALSE, panicked |-> TRUE]
    ELSE [rb |-> Append(rbuf, ComputeSample(rawq)), pushed |-> TRUE,
          panicked |-> FALSE]

\* send_sample: what it leaves in the ring buffer, whether it pushed, and
\* whether it panicked.
SendSample(rbuf, cap, rawq, checks) ==
    IF IsFull(rbuf, cap)
    THEN [rb |-> rbuf, pushed |-> FALSE, panicked |-> FALSE]
    ELSE IF checks /\ SubOverflows(Len(rawq))
    THEN [rb |-> rbuf, pushed |-> FALSE, panicked |-> TRUE]
    ELSE LET after == Push(rbuf, cap, ComputeSample(rawq))
         IN  [rb |-> after, pushed |-> after # rbuf, panicked |-> FALSE]

\* process returning the frame with a gain applied instead of the input.
ProcessOutputScaled(input) == Frame(2 * input.left, 2 * input.right)

\* The frame process returns: `input`.
ProcessOutput(input) == input

\* raw.push_back(input) on a VecDeque whose storage is full (len equal to
\* the capacity, 0 after VecDeque::new()) allocates new storage.
PushBackAllocates(rawq, cap) == Len(rawq) >= cap

\* The capacity push_back grows a full VecDeque to: the double, and at
\* least 4 elements (the amortized growth of the standard library).
GrowCapacity(cap) == Max(2 * cap, 4)

Process(input) ==
    /\ effect_alive
    /\ ~panicked
    /\ Len(fed) < MaxFrames
    /\ raw_capacity' = IF PushBackAllocates(raw, raw_capacity)
                       THEN GrowCapacity(raw_capacity)
                       ELSE raw_capacity
    /\ allocations' = IF PushBackAllocates(raw, raw_capacity)
                      THEN allocations + 1
                      ELSE allocations
    /\ LET rawq == PushBackEvict(raw, input)
           sent == SendSample(rb, capacity, rawq, overflow_checks)
       IN  /\ raw' = rawq
           /\ rb' = sent.rb
           /\ panicked' = sent.panicked
           /\ pushed' = IF sent.pushed THEN Append(pushed, sent.rb[Len(sent.rb)])
                        ELSE pushed
           /\ ret' = IF sent.panicked THEN Panic ELSE Returned(ProcessOutput(input))
    /\ fed' = Append(fed, input)
    /\ op' = "process"
    /\ UNCHANGED <<overflow_checks, capacity, last_get, popped, effect_alive,
                   dropped_with, pairVars, ecsVars, drumVars>>

(***************************************************************************)
(* LevelMonitorHandle::get_sample.                                         *)
(***************************************************************************)
\* get_sample handing out a default sample when nothing is queued.
PopOrDefault(rbuf) ==
    IF rbuf = <<>>
    THEN [result |-> Ok(ZeroSample), rb |-> rbuf]
    ELSE [result |-> Ok(Head(rbuf)), rb |-> Tail(rbuf)]

\* get_sample taking the newest queued sample instead of the oldest.
PopNewest(rbuf) ==
    IF rbuf = <<>>
    THEN [result |-> ErrCommandQueueFull, rb |-> rbuf]
    ELSE [result |-> Ok(rbuf[Len(rbuf)]), rb |-> SubSeq(rbuf, 1, Len(rbuf) - 1)]

\* get_sample draining the buffer and returning only the newest sample.
PopDrain(rbuf) ==
    IF rbuf = <<>>
    THEN [result |-> ErrCommandQueueFull, rb |-> rbuf]
    ELSE [result |-> Ok(rbuf[Len(rbuf)]), rb |-> <<>>]

\* sample_consumer.pop(), and the Result get_sample makes of it.
Pop(rbuf) ==
    IF rbuf = <<>>
    THEN [result |-> ErrCommandQueueFull, rb |-> rbuf]
    ELSE [result |-> Ok(Head(rbuf)), rb |-> Tail(rbuf)]

\* get_sample waiting for a sample instead of reporting the error.
GetSampleBlocking ==
    /\ rb # <<>>
    /\ rb' = Tail(rb)
    /\ last_get' = Ok(Head(rb))
    /\ popped' = Append(popped, Head(rb))
    /\ op' = "get_sample"
    /\ UNCHANGED <<overflow_checks, capacity, raw, panicked, fed, ret, pushed,
                   raw_capacity, allocations, effect_alive, dropped_with,
                   pairVars, ecsVars, drumVars>>

GetSample ==
    /\ LET got == Pop(rb)
       IN  /\ rb' = got.rb
           /\ last_get' = got.result
           /\ popped' = IF got.result.kind = "ok"
                        THEN Append(popped, got.result.sample)
                        ELSE popped
    /\ op' = "get_sample"
    /\ UNCHANGED <<overflow_checks, capacity, raw, panicked, fed, ret, pushed,
                   raw_capacity, allocations, effect_alive, dropped_with,
                   pairVars, ecsVars, drumVars>>

(***************************************************************************)
(* Specifications.                                                         *)
(***************************************************************************)
\* The state LevelMonitor::new leaves, with a ring buffer of capacity cap.
New(cap) ==
    /\ overflow_checks \in BOOLEAN
    /\ capacity = cap
    /\ raw = <<>>
    /\ rb = <<>>
    /\ panicked = FALSE
    /\ op = "new"
    /\ fed = <<>>
    /\ ret = NoReturn
    /\ pushed = <<>>
    /\ last_get = NoResult
    /\ popped = <<>>
    /\ raw_capacity = 0
    /\ allocations = 0
    /\ effect_alive = TRUE
    /\ dropped_with = NotDropped

\* No monitor pair is built.
NoPair ==
    /\ channels = <<>>
    /\ effects = <<>>
    /\ handles = <<>>
    /\ pair_pushed = <<>>
    /\ pair_popped = <<>>

\* The world before the first frame: no event sent, no sound started, no
\* entity has a KiraPlayingSounds component; KiraContext::default has
\* created the manager (has_manager) or has logged the error and kept None.
World(has_manager) ==
    /\ ev_play = <<>>
    /\ playing_sounds = [e \in Entities |-> NoComponent]
    /\ commands = NoCommands
    /\ ran = {}
    /\ started = <<>>
    /\ stopped = {}
    /\ tick = 0
    /\ sys = "startup"
    /\ manager = has_manager
    /\ ev_written = 0
    /\ play_calls = <<>>
    /\ ctx_result = "none"

\* The world with an audio manager.
NoSounds == World(TRUE)

\* The drum machine after setup_sys: the clock is started, no asset is
\* loaded yet, playback_sys has not run; the conversion of pattern p has
\* not been made.
DrumSetup(p) ==
    /\ clock = 0
    /\ epoch = 0
    /\ last_ticks = [c \in DrumChannels |-> NotSeen]
    /\ assets = [c \in DrumChannels |-> FALSE]
    /\ drum_events = <<>>
    /\ last_run = [c \in DrumChannels |-> NoRun]
    /\ runs = 0
    /\ drum_sys = "setup"
    /\ default_pattern = p
    /\ drum_pattern = <<>>

\* LevelMonitorBuilder::build: HeapRb::new(SAMPLE_CAPACITY).split().
Init == New(SAMPLE_CAPACITY) /\ NoPair /\ NoSounds /\ DrumSetup(DEFAULT_KICK)

\* The app after KiraEventsPlugin is added, built without overflow checks
\* (the playback systems do no arithmetic that could overflow).
InitEcs == Init /\ ~overflow_checks

\* The app on a machine where AudioManager::new failed.
InitNoManager ==
    /\ New(SAMPLE_CAPACITY) /\ ~overflow_checks
    /\ NoPair /\ World(FALSE) /\ DrumSetup(DEFAULT_KICK)

ProcessAny == \E input \in FrameSet : Process(input)

Next == ProcessAny \/ GetSample

Spec == Init /\ [][Next]_vars

\* The scenarios: a monitor constructed over a ring buffer of capacity
\* ScenarioCapacity, fed the frames (0,0), (1,1), (2,2), ... in this order.
InitScenario ==
    New(ScenarioCapacity) /\ NoPair /\ NoSounds /\ DrumSetup(DEFAULT_KICK)

ProcessScenario == Process(ScenarioFrame(Len(fed)))

NextScenario == ProcessScenario \/ GetSample

SpecScenario == InitScenario /\ [][NextScenario]_vars

(***************************************************************************)
(* The monitor run without end: the audio thread calls process for every   *)
(* frame as long as it lives, and ui_sys calls get_sample in every frame   *)
(* of the app.  The two handlers are the ones above; the records of the    *)
(* frames fed and of the samples pushed and popped, which grow with every  *)
(* call, are left out.                                                     *)
(***************************************************************************)
ProcessLive(input) ==
    /\ effect_alive
    /\ ~panicked
    /\ raw_capacity' = IF PushBackAllocates(raw, raw_capacity)
                       THEN GrowCapacity(raw_capacity)
                       ELSE raw_capacity
    /\ allocations' = IF PushBackAllocates(raw, raw_capacity)
                      THEN allocations + 1
                      ELSE allocations
    /\ LET rawq == PushBackEvict(raw, input)
           sent == SendSample(rb, capacity, rawq, overflow_checks)
       IN  /\ raw' = rawq
           /\ rb' = sent.rb
           /\ panicked' = sent.panicked
           /\ ret' = IF sent.panicked THEN Panic ELSE Returned(ProcessOutput(input))
    /\ op' = "process"
    /\ UNCHANGED <<overflow_checks, capacity, fed, pushed, last_get, popped,
                   effect_alive, dropped_with, pairVars, ecsVars, drumVars>>

GetSampleLive ==
    /\ LET got == Pop(rb)
       IN  /\ rb' = got.rb
           /\ last_get' = got.result
    /\ op' = "get_sample"
    /\ UNCHANGED <<overflow_checks, capacity, raw, panicked, fed, ret, pushed,
                   popped, raw_capacity, allocations, effect_alive, dropped_with,
                   pairVars, ecsVars, drumVars>>

ProcessLiveAny == \E input \in FrameSet : ProcessLive(input)

NextLive == ProcessLiveAny \/ GetSampleLive

\* Both sides keep running: a call of process is taken whenever the audio
\* thread can make one (it cannot after a panic), and so is a call of
\* get_sample.
SpecLive ==
    /\ Init
    /\ [][NextLive]_vars
    /\ WF_vars(ProcessLiveAny)
    /\ WF_vars(GetSampleLive)

(***************************************************************************)
(* The effect dropped while its handle is still polled.                    *)
(***************************************************************************)
\* Dropping the effect that also threw away the samples still queued.
DropEffectDiscard ==
    /\ effect_alive
    /\ effect_alive' = FALSE
    /\ raw' = <<>>
    /\ raw_capacity' = 0
    /\ rb' = <<>>
    /\ dropped_with' = [queue |-> rb, taken |-> Len(popped)]
    /\ op' = "drop"
    /\ UNCHANGED <<overflow_checks, capacity, panicked, fed, ret, pushed,
                   last_get, popped, allocations, pairVars, ecsVars, drumVars>>

\* The LevelMonitor is dropped: its fields sample_producer and raw are
\* dropped with it.  The ring buffer is shared with sample_consumer and
\* lives on with what it holds.
DropEffect ==
    /\ effect_alive
    /\ effect_alive' = FALSE
    /\ raw' = <<>>
    /\ raw_capacity' = 0
    /\ dropped_with' = [queue |-> rb, taken |-> Len(popped)]
    /\ op' = "drop"
    /\ UNCHANGED <<overflow_checks, capacity, rb, panicked, fed, ret, pushed,
                   last_get, popped, allocations, pairVars, ecsVars, drumVars>>

NextDrop == ProcessScenario \/ GetSample \/ DropEffect

SpecDrop == Init /\ [][NextDrop]_vars

(***************************************************************************)
(* LevelMonitorBuilder::build called several times: each call builds an    *)
(* effect and a handle.                                                    *)
(***************************************************************************)
\* The frame the host feeds the effect of the k-th build: (k, -k).
PairFrame(k) == Frame(k, 0 - k)

\* build splitting one ring buffer, allocated once, for every monitor.
BuildShared(chans) ==
    IF chans = <<>>
    THEN [channels |-> <<(<<>>)>>, producer |-> 1, consumer |-> 1]
    ELSE [channels |-> chans, producer |-> 1, consumer |-> 1]

\* HeapRb::new(SAMPLE_CAPACITY).split(): a new ring buffer is allocated and
\* split into its producer and its consumer half.
Build(chans) ==
    [channels |-> Append(chans, <<>>),
     producer |-> Len(chans) + 1,
     consumer |-> Len(chans) + 1]

\* One call of build: the effect gets the producer half, the handle the
\* consumer half.
BuildMonitor ==
    /\ Len(effects) < MaxMonitors
    /\ LET built == Build(channels)
       IN  /\ channels' = built.channels
           /\ effects' = Append(effects, [sample_producer |-> built.producer,
                                          raw |-> <<>>,
                                          panicked |-> FALSE,
                                          calls |-> 0])
           /\ handles' = Append(handles, [sample_consumer |-> built.consumer])
    /\ pair_pushed' = Append(pair_pushed, <<>>)
    /\ pair_popped' = Append(pair_popped, <<>>)
    /\ UNCHANGED <<monitorVars, ecsVars, drumVars>>

\* process of the effect of the k-th build.
ProcessOf(k) ==
    /\ k \in 1..Len(effects)
    /\ ~effects[k].panicked
    /\ effects[k].calls < MaxPairFrames
    /\ LET effect == effects[k]
           rawq == PushBackEvict(effect.raw, PairFrame(k))
           out == SendSample(channels[effect.sample_producer], SAMPLE_CAPACITY,
                             rawq, overflow_checks)
       IN  /\ channels' = [channels EXCEPT ![effect.sample_producer] = out.rb]
           /\ effects' = [effects EXCEPT ![k] =
                             [sample_producer |-> effect.sample_producer,
                              raw |-> rawq,
                              panicked |-> out.panicked,
                              calls |-> effect.calls + 1]]
           /\ pair_pushed' = IF out.pushed
                             THEN [pair_pushed EXCEPT ![k] =
                                      Append(@, out.rb[Len(out.rb)])]
                             ELSE pair_pushed
    /\ UNCHANGED <<handles, pair_popped, monitorVars, ecsVars, drumVars>>

\* get_sample of the handle of the k-th build.
GetSampleOf(k) ==
    /\ k \in 1..Len(handles)
    /\ LET out == Pop(channels[handles[k].sample_consumer])
       IN  /\ channels' = [channels EXCEPT ![handles[k].sample_consumer] = out.rb]
           /\ pair_popped' = IF out.result.kind = "ok"
                             THEN [pair_popped EXCEPT ![k] =
                                      Append(@, out.result.sample)]
                             ELSE pair_popped
    /\ UNCHANGED <<effects, handles, pair_pushed, monitorVars, ecsVars, drumVars>>

ProcessOfAny == \E k \in 1..MaxMonitors : ProcessOf(k)

GetSampleOfAny == \E k \in 1..MaxMonitors : GetSampleOf(k)

NextPair == BuildMonitor \/ ProcessOfAny \/ GetSampleOfAny

SpecPair == Init /\ [][NextPair]_vars

(***************************************************************************)
(* The playback systems of KiraEventsPlugin: do_play_sys and               *)
(* cleanup_inactive_sounds_sys run once per frame, in no fixed order; the  *)
(* commands they queue are applied after both have run.                    *)
(***************************************************************************)
\* KiraPlaySoundEvent: the entity to associate the sound with, the lookup
\* of track_entity ("none": no track entity given, "found": it has a
\* KiraTrackHandle, "missing": it has none), and whether kira.play starts
\* the sound.
\* id is the serial number the event gets in Events<KiraPlaySoundEvent>
\* when it is written.
KiraPlaySoundEvent(e, t, ok) ==
    [entity |-> e, track |-> t, playable |-> ok, id |-> 0]

\* The events game code writes.
PlayEventSet ==
    {KiraPlaySoundEvent(1, "none", TRUE),
     KiraPlaySoundEvent(2, "found", TRUE),
     KiraPlaySoundEvent(1, "found", FALSE),
     KiraPlaySoundEvent(DespawnedEntity, "none", TRUE),
     KiraPlaySoundEvent(2, "missing", TRUE)}

\* commands.entity(eid).insert(KiraPlayingSounds(vec![sound_handle])) and
\* commands.entity(eid).remove::<KiraPlayingSounds>().
InsertCommand(e, h) == [kind |-> "insert", entity |-> e, handles |-> <<h>>]
RemoveCommand(e) == [kind |-> "remove", entity |-> e, handles |-> <<>>]

\* An event is written to Events<KiraPlaySoundEvent>.  An event written
\* after do_play_sys has run waits for the next frame: it is taken as
\* written at the start of that frame.
SendEvent(ev) ==
    /\ tick < MaxTicks
    /\ "do_play" \notin ran
    /\ Len(ev_play) < MaxPending
    /\ ev_written < MaxEvents
    /\ ev_play' = Append(ev_play, [ev EXCEPT !.id = ev_written + 1])
    /\ ev_written' = ev_written + 1
    /\ sys' = "send"
    /\ UNCHANGED <<playing_sounds, commands, ran, started, stopped, tick,
                   manager, play_calls, ctx_result, monitorVars, pairVars, drumVars>>

\* A sound that was started finishes: its handle reports
\* PlaybackState::Stopped from now on.  Only cleanup_inactive_sounds_sys
\* reads the state: a sound that stops after it has run in a frame is taken
\* as stopping before it runs in the next.
SoundStops(h) ==
    /\ tick < MaxTicks
    /\ "cleanup" \notin ran
    /\ h \in 1..Len(started)
    /\ h \notin stopped
    /\ stopped' = stopped \cup {h}
    /\ sys' = "stop"
    /\ UNCHANGED <<ev_play, playing_sounds, commands, ran, started, tick,
                   manager, ev_written, play_calls, ctx_result,
                   monitorVars, pairVars, drumVars>>

\* The match on active_sounds in do_play_sys for an entity the query finds:
\* push into the component the entity has, or queue the insertion of a new
\* component holding the handle.
Associate(w, e, h) ==
    IF w.sounds[e].present
    THEN [w EXCEPT !.sounds[e] = KiraPlayingSounds(Append(w.sounds[e].handles, h))]
    ELSE [w EXCEPT !.cmds = Append(w.cmds, InsertCommand(e, h))]

\* get_manager unwrapping the Option: it panics when there is no manager.
GetManagerUnwrap(has_manager) == IF has_manager THEN "ok" ELSE "panic"

\* KiraContext::get_manager: the manager, or an error when there is none.
GetManager(has_manager) == IF has_manager THEN "ok" ELSE "err"

\* KiraContext::play playing every sound on the main track.
KiraPlayMainOnly(has_manager, playable, track) ==
    IF GetManager(has_manager) = "err"
    THEN [ok |-> FALSE, on |-> "nowhere"]
    ELSE [ok |-> playable, on |-> "main"]

\* KiraContext::play: an error when there is no manager; else the sound is
\* played in the track given (play_in_track) or, without one, in the
\* manager's main track (play_in_main_track).  playable tells whether kira
\* accepts the sound.
KiraPlay(has_manager, playable, track) ==
    IF GetManager(has_manager) = "err"
    THEN [ok |-> FALSE, on |-> "nowhere"]
    ELSE IF track = "none"
    THEN [ok |-> playable, on |-> "main"]
    ELSE [ok |-> playable, on |-> "track"]

\* The loop of do_play_sys stopping at the first sound kira.play refuses.
RECURSIVE PlayEventsBreak(_, _, _, _)
PlayEventsBreak(evs, w, now, has_manager) ==
    IF evs = <<>> \/ Head(evs).track = "missing"
    THEN w
    ELSE LET event == Head(evs)
             played == KiraPlay(has_manager, event.playable, event.track)
             called == [w EXCEPT !.calls =
                           Append(w.calls, [id |-> event.id, track |-> event.track,
                                            on |-> played.on, ok |-> played.ok,
                                            tick |-> now])]
             sound_handle == Len(w.started) + 1
             begun == [called EXCEPT !.started =
                          Append(w.started, [entity |-> event.entity, tick |-> now])]
         IN  IF ~played.ok
             THEN called
             ELSE PlayEventsBreak(Tail(evs),
                                  IF event.entity \in Entities
                                  THEN Associate(begun, event.entity, sound_handle)
                                  ELSE begun,
                                  now, has_manager)

\* The loop of do_play_sys over ev_play.drain().  w holds the components,
\* the commands queued, the sounds started and the calls of kira.play so
\* far.  A failed track lookup returns from the system (`?`), a failed
\* kira.play skips the event.
RECURSIVE PlayEvents(_, _, _, _)
PlayEvents(evs, w, now, has_manager) ==
    IF evs = <<>> \/ Head(evs).track = "missing"
    THEN w
    ELSE LET event == Head(evs)
             played == KiraPlay(has_manager, event.playable, event.track)
             called == [w EXCEPT !.calls =
                           Append(w.calls, [id |-> event.id, track |-> event.track,
                                            on |-> played.on, ok |-> played.ok,
                                            tick |-> now])]
             sound_handle == Len(w.started) + 1
             begun == [called EXCEPT !.started =
                          Append(w.started, [entity |-> event.entity, tick |-> now])]
         IN  IF ~played.ok
             THEN PlayEvents(Tail(evs), called, now, has_manager)
             ELSE PlayEvents(Tail(evs),
                             IF event.entity \in Entities
                             THEN Associate(begun, event.entity, sound_handle)
                             ELSE begun,
                             now, has_manager)

\* Reading the events without consuming them.
DrainKeep(evs) == evs

\* ev_play.drain(): what is left in the queue once the Drain iterator is
\* dropped, also when the loop is left early.
Drain(evs) == <<>>

DoPlaySys ==
    /\ tick < MaxTicks
    /\ "do_play" \notin ran
    /\ LET w == PlayEvents(ev_play,
                           [sounds |-> playing_sounds, cmds |-> commands.do_play,
                            started |-> started, calls |-> play_calls],
                           tick, manager)
       IN  /\ playing_sounds' = w.sounds
           /\ commands' = [commands EXCEPT !.do_play = w.cmds]
           /\ started' = w.started
           /\ play_calls' = w.calls
    /\ ev_play' = Drain(ev_play)
    /\ ran' = ran \cup {"do_play"}
    /\ sys' = "do_play"
    /\ UNCHANGED <<stopped, tick, manager, ev_written, ctx_result,
                   monitorVars, pairVars, drumVars>>

\* retain with the test inverted: it keeps the stopped sounds.
RetainStopped(hs, halted) == SelectSeq(hs, LAMBDA h : h \in halted)

\* sounds.0.retain(|sound| sound.state() != PlaybackState::Stopped)
Retain(hs, halted) == SelectSeq(hs, LAMBDA h : h \notin halted)

\* The loop of cleanup_inactive_sounds_sys over the entities that have the
\* component: the commands it queues, in the order of the query.
RECURSIVE CleanupCommands(_, _, _)
CleanupCommands(todo, sounds, halted) ==
    IF todo = {}
    THEN <<>>
    ELSE LET eid == CHOOSE e \in todo : \A o \in todo : e <= o
             rest == CleanupCommands(todo \ {eid}, sounds, halted)
         IN  IF Retain(sounds[eid].handles, halted) = <<>>
             THEN <<RemoveCommand(eid)>> \o rest
             ELSE rest

CleanupInactiveSoundsSys ==
    /\ tick < MaxTicks
    /\ "cleanup" \notin ran
    /\ playing_sounds' =
          [e \in Entities |->
              IF playing_sounds[e].present
              THEN KiraPlayingSounds(Retain(playing_sounds[e].handles, stopped))
              ELSE playing_sounds[e]]
    /\ commands' = [commands EXCEPT !.cleanup =
                       commands.cleanup \o
                       CleanupCommands({e \in Entities : playing_sounds[e].present},
                                       playing_sounds, stopped)]
    /\ ran' = ran \cup {"cleanup"}
    /\ sys' = "cleanup"
    /\ UNCHANGED <<ev_play, started, stopped, tick, manager, ev_written,
                   play_calls, ctx_result, monitorVars, pairVars, drumVars>>

\* The deferred commands applied to the world, in the order queued: insert
\* sets the entity's component (replacing one it has), remove takes it away.
RECURSIVE ApplyCommands(_, _)
ApplyCommands(cmds, sounds) ==
    IF cmds = <<>>
    THEN sounds
    ELSE LET cmd == Head(cmds)
         IN  ApplyCommands(Tail(cmds),
                           [sounds EXCEPT ![cmd.entity] =
                               IF cmd.kind = "insert"
                               THEN KiraPlayingSounds(cmd.handles)
                               ELSE NoComponent])

\* The end of the frame: both systems have run, their command queues are
\* applied in the order the systems were added (do_play_sys, then
\* cleanup_inactive_sounds_sys).
ApplyDeferred ==
    /\ ran = {"do_play", "cleanup"}
    /\ playing_sounds' = ApplyCommands(commands.do_play \o commands.cleanup,
                                       playing_sounds)
    /\ commands' = NoCommands
    /\ ran' = {}
    /\ tick' = tick + 1
    /\ sys' = "apply"
    /\ UNCHANGED <<ev_play, started, stopped, manager, ev_written, play_calls,
                   ctx_result, monitorVars, pairVars, drumVars>>

SendAnyEvent == \E ev \in PlayEventSet : SendEvent(ev)

AnySoundStops == \E h \in 1..MaxEvents : SoundStops(h)

NextEcs ==
    \/ SendAnyEvent
    \/ DoPlaySys
    \/ CleanupInactiveSoundsSys
    \/ ApplyDeferred
    \/ AnySoundStops

SpecEcs == InitEcs /\ [][NextEcs]_vars

(***************************************************************************)
(* Direct calls on the KiraContext, and the app without an audio manager.  *)
(***************************************************************************)
\* get_manager()?; manager.add_clock(clock_speed).map_err(..): accepted
\* tells whether kira has room for the clock.
AddClock(has_manager, accepted) ==
    IF GetManager(has_manager) = "err" THEN "err"
    ELSE IF accepted THEN "ok" ELSE "err"

\* get_manager()?; manager.add_sub_track(track).map_err(..)
AddTrack(has_manager, accepted) ==
    IF GetManager(has_manager) = "err" THEN "err"
    ELSE IF accepted THEN "ok" ELSE "err"

\* A call of one of the methods of KiraContext that take no sound; none of
\* them assigns to self.manager.
CallAddClock ==
    /\ \E accepted \in BOOLEAN : ctx_result' = AddClock(manager, accepted)
    /\ sys' = "add_clock"
    /\ UNCHANGED <<ev_play, playing_sounds, commands, ran, started, stopped,
                   tick, manager, ev_written, play_calls, monitorVars, pairVars, drumVars>>

CallAddTrack ==
    /\ \E accepted \in BOOLEAN : ctx_result' = AddTrack(manager, accepted)
    /\ sys' = "add_track"
    /\ UNCHANGED <<ev_play, playing_sounds, commands, ran, started, stopped,
                   tick, manager, ev_written, play_calls, monitorVars, pairVars, drumVars>>

CallGetManager ==
    /\ ctx_result' = GetManager(manager)
    /\ sys' = "get_manager"
    /\ UNCHANGED <<ev_play, playing_sounds, commands, ran, started, stopped,
                   tick, manager, ev_written, play_calls, monitorVars, pairVars, drumVars>>

\* The events written where no track exists (add_track has failed).
SendAnyEventNoTrack ==
    \E ev \in {e \in PlayEventSet : e.track # "found"} : SendEvent(ev)

NextNoManager ==
    \/ SendAnyEventNoTrack
    \/ DoPlaySys
    \/ CleanupInactiveSoundsSys
    \/ ApplyDeferred
    \/ CallAddClock
    \/ CallAddTrack
    \/ CallGetManager

SpecNoManager == InitNoManager /\ [][NextNoManager]_vars

(***************************************************************************)
(* DrumPattern::from(DefaultPattern).                                      *)
(***************************************************************************)
\* The conversion without the reversal of the bits.
NoReverse(p, n, acc) == p

\* u16::reverse_bits: the n low bits of p, lowest first, appended to acc.
RECURSIVE ReverseBits(_, _, _)
ReverseBits(p, n, acc) ==
    IF n = 0
    THEN acc
    ELSE ReverseBits(p \div 2, n - 1, 2 * acc + (p % 2))

\* 1 << i on u16.
Shl(i) == (2 ^ i) % (2 ^ PATTERN_BITS)

\* a & b
RECURSIVE BitAnd(_, _)
BitAnd(a, b) ==
    IF a = 0 \/ b = 0
    THEN 0
    ELSE (a % 2) * (b % 2) + 2 * BitAnd(a \div 2, b \div 2)

\* impl From<DefaultPattern> for DrumPattern: steps[i] = (p & (1 << i)) != 0
\* on the reversed bits, for i from 0 to STEPS - 1.
From(pattern) ==
    LET reversed == ReverseBits(pattern, PATTERN_BITS, 0)
    IN  [i \in 0..(STEPS - 1) |-> BitAnd(reversed, Shl(i)) # 0]

\* One conversion of the pattern chosen at the start.
ConvertPattern ==
    /\ drum_pattern = <<>>
    /\ drum_pattern' = From(default_pattern)
    /\ drum_sys' = "from"
    /\ UNCHANGED <<clock, epoch, last_ticks, assets, drum_events, last_run, runs,
                   default_pattern, monitorVars, pairVars, ecsVars>>

\* Every value of the u16 is converted.
InitPattern ==
    /\ New(SAMPLE_CAPACITY) /\ ~overflow_checks
    /\ NoPair /\ NoSounds
    /\ \E p \in 0..(2 ^ PATTERN_BITS - 1) : DrumSetup(p)

NextPattern == ConvertPattern

SpecPattern == InitPattern /\ [][NextPattern]_vars

(***************************************************************************)
(* playback_sys of the drum machine.                                       *)
(***************************************************************************)
\* The patterns setup_sys gives the channels: DEFAULT_KICK.into() and
\* DEFAULT_HAT.into().
KickPattern == From(DEFAULT_KICK)

HatPattern == From(DEFAULT_HAT)

\* The pattern of a channel: the kick on channel 1, the hat on channel 2
\* (the steps the user toggles afterwards are left out).
ChannelPattern(chan) == IF chan = 1 THEN KickPattern ELSE HatPattern

\* `clock_ticks as usize`: the low bits that fit a usize.
AsUsize(t) == IF t <= USIZE_MAX THEN t ELSE t - USIZE_MAX - 1

\* let next_play_step = clock_ticks as usize % STEPS;
NextPlayStep(clock_ticks) == AsUsize(clock_ticks) % STEPS

\* A test that never finds the tick already handled.
NeverHandled(clock_ticks, last_tick) == FALSE

\* if clock_ticks == last_tick { continue; }
AlreadyHandled(clock_ticks, last_tick) == clock_ticks = last_tick

\* The test of the missed tick on the recorded tick itself, without
\* taking the minimum first.
MissedTickNoMin(clock_ticks, last_tick) ==
    [underflow |-> clock_ticks < last_tick,
     warned |-> (IF clock_ticks >= last_tick
                 THEN clock_ticks - last_tick
                 ELSE U64_MAX - (last_tick - clock_ticks) + 1) > 1]

\* let last_tick = last_tick.min(clock_ticks);
\* if (clock_ticks - last_tick) > 1 { warn!(..) }
\* underflow tells whether the subtraction on u64 goes below zero (it
\* panics with overflow checks and wraps without).
MissedTick(clock_ticks, last_tick) ==
    LET least == Min(last_tick, clock_ticks)
    IN  [underflow |-> clock_ticks < least,
         warned |-> (IF clock_ticks >= least
                     THEN clock_ticks - least
                     ELSE U64_MAX - (least - clock_ticks) + 1) > 1]

\* A start time at the clock time itself.
StartTimeNow(time) == time

\* start_time: (clock.time() + 1).into()
StartTime(time) == time + 1

\* The body of the loop of playback_sys for one channel: clock_ticks is the
\* tick read at its start, time the clock time read for the start time,
\* recorded the entry of the channel in LastTicks, loaded whether
\* assets.get finds the sound.
PlaybackChannel(chan, clock_ticks, time, recorded, loaded) ==
    LET last_tick == IF recorded.seen THEN recorded.tick ELSE U64_MAX
        missed == MissedTick(clock_ticks, last_tick)
    IN  IF AlreadyHandled(clock_ticks, last_tick)
        THEN [visited |-> TRUE, recorded |-> recorded, skipped |-> TRUE, clock_ticks |-> clock_ticks,
              last |-> recorded, warned |-> FALSE, underflow |-> FALSE,
              events |-> <<>>, time |-> time]
        ELSE [visited |-> TRUE, recorded |-> recorded, skipped |-> FALSE, clock_ticks |-> clock_ticks,
              last |-> Seen(clock_ticks),
              warned |-> missed.warned, underflow |-> missed.underflow,
              events |-> IF ChannelPattern(chan)[NextPlayStep(clock_ticks)] /\ loaded
                         THEN <<[entity |-> chan, track_entity |-> chan,
                                 start_time |-> StartTime(time)]>>
                         ELSE <<>>,
              time |-> time]

\* The value the k-th read of the clock (from 0) gives in a run during
\* which the audio thread advances the clock before read number `at`.
ClockRead(k, at) == IF k >= at THEN clock + 1 ELSE clock

\* One run of playback_sys over the channels 1 and 2.  Each channel reads
\* the clock twice (the tick, then the time of the start time); the clock
\* is advanced by the audio thread before read `at`, or not at all.
PlaybackSys(at) ==
    /\ runs < MaxRuns
    /\ at < 4 => clock < MaxClock
    /\ LET first == PlaybackChannel(1, ClockRead(0, at), ClockRead(1, at),
                                     last_ticks[1], assets[1])
           second == PlaybackChannel(2, ClockRead(2, at), ClockRead(3, at),
                                      last_ticks[2], assets[2])
       IN  /\ last_run' = <<first, second>>
           /\ last_ticks' = <<first.last, second.last>>
           /\ drum_events' = drum_events \o
                  (IF first.events = <<>> THEN <<>>
                   ELSE <<[chan |-> 1, tick |-> first.clock_ticks, epoch |-> epoch]>>) \o
                  (IF second.events = <<>> THEN <<>>
                   ELSE <<[chan |-> 2, tick |-> second.clock_ticks, epoch |-> epoch]>>)
    /\ clock' = IF at < 4 THEN clock + 1 ELSE clock
    /\ runs' = runs + 1
    /\ drum_sys' = "playback"
    /\ UNCHANGED <<epoch, assets, default_pattern, drum_pattern,
                   monitorVars, pairVars, ecsVars>>

\* The audio thread advances the clock by d ticks between two runs.
ClockTick(d) ==
    /\ runs < MaxRuns
    /\ clock + d <= MaxClock
    /\ clock' = clock + d
    /\ UNCHANGED <<epoch, last_ticks, assets, drum_events, last_run, runs, drum_sys,
                   default_pattern, drum_pattern, monitorVars, pairVars, ecsVars>>

\* The clock handle is stopped and started again: the ticks restart at 0.
\* (The drum machine itself never does so; playback_sys allows for a tick
\* below the recorded one.)
ClockRestarts ==
    /\ runs < MaxRuns
    /\ clock > 0
    /\ epoch = 0
    /\ clock' = 0
    /\ epoch' = epoch + 1
    /\ UNCHANGED <<last_ticks, assets, drum_events, last_run, runs, drum_sys,
                   default_pattern, drum_pattern, monitorVars, pairVars, ecsVars>>

\* The asset server finishes loading the sound of a channel.
AssetLoads(chan) ==
    /\ runs < MaxRuns
    /\ ~assets[chan]
    /\ assets' = [assets EXCEPT ![chan] = TRUE]
    /\ UNCHANGED <<clock, epoch, last_ticks, drum_events, last_run, runs, drum_sys,
                   default_pattern, drum_pattern, monitorVars, pairVars, ecsVars>>

PlaybackSysAny == \E at \in 0..4 : PlaybackSys(at)

ClockTickAny == \E d \in {1, 2, STEPS - 1} : ClockTick(d)

AssetLoadsAny == \E chan \in DrumChannels : AssetLoads(chan)

InitDrum == Init /\ ~overflow_checks

NextDrum == PlaybackSysAny \/ ClockTickAny \/ ClockRestarts \/ AssetLoadsAny

SpecDrum == InitDrum /\ [][NextDrum]_vars

(***************************************************************************)
(* Helpers of the properties.                                              *)
(***************************************************************************)
\* Sequence p is a prefix of sequence s.
IsPrefix(p, s) == Len(p) <= Len(s) /\ p = SubSeq(s, 1, Len(p))

\* The elements of sequence s.
Range(s) == {s[i] : i \in 1..Len(s)}

\* The last k elements of s (all of s when it has fewer).
LastK(s, k) == IF Len(s) <= k THEN s ELSE SubSeq(s, Len(s) - k + 1, Len(s))

\* A step of process, of get_sample (op names the operation that ran last,
\* and every call of process extends fed).
ProcessStep == op' = "process" /\ Len(fed') = Len(fed) + 1
GetSampleStep == op' = "get_sample"

\* The frame the last call of process was given.
LastInput == fed[Len(fed)]

\* Sample s was built from window w: it is the copy of w that LevelSample<N>
\* declares (window: [Frame; N]), or the levels send_sample computes of w.
IsSnapshotOf(s, w) ==
    \/ ("window" \in DOMAIN s /\ s = [window |-> w])
    \/ ("left_peak" \in DOMAIN s /\ s = ComputeSample(w))

\* The first k frames of the scenarios.
ScenarioFrames(k) == [i \in 1..k |-> ScenarioFrame(i - 1)]

(***************************************************************************)
(* C1.  process is a pass-through: whenever a call of process returns, the *)
(* frame it returns is the frame it was given, whatever the window holds   *)
(* and whether the ring buffer is empty, partly filled or full.            *)
(***************************************************************************)
C1_PassThrough == ret.kind = "frame" => ret.frame = LastInput

\* process returned a non-silent frame on a call that found the ring buffer
\* full (four pushes, nothing popped, more than four calls) and evicted.
C1_Witness ==
    /\ op = "process"
    /\ ret = Returned(Frame(-1, 2))
    /\ Len(fed) > RawLimit
    /\ Len(rb) = capacity
    /\ popped = <<>>

(***************************************************************************)
(* C2.  process never panics, for any sequence of input frames, any        *)
(* window length (also fewer than 10 frames) and any occupancy of the ring *)
(* buffer.                                                                 *)
(***************************************************************************)
C2_NeverPanics == ~panicked

(***************************************************************************)
(* C3.  After L >= N calls of process the rolling window holds exactly the *)
(* last N frames submitted, oldest first.                                  *)
(***************************************************************************)
C3_WindowIsLastN == Len(fed) >= N => raw = LastK(fed, N)

(***************************************************************************)
(* C4.  No sample is pushed before N frames have been processed, and every *)
(* sample pushed is built from a window of exactly N frames.               *)
(***************************************************************************)
C4_NoPartialSnapshot ==
    [][Len(pushed') > Len(pushed) => Len(fed') >= N /\ Len(raw') = N]_vars

(***************************************************************************)
(* C5.  A call of process that finds the ring buffer full pushes nothing,  *)
(* leaves the queued samples as they are, appends the frame to the rolling *)
(* window (evicting the oldest frame when the window is over its limit),   *)
(* returns the input frame and does not panic; and the window keeps        *)
(* holding the latest frames submitted, in order, on every later call.     *)
(***************************************************************************)
C5_FullChannelStep ==
    ProcessStep /\ Len(rb) >= capacity =>
        /\ rb' = rb
        /\ pushed' = pushed
        /\ raw' = LastK(raw \o <<fed'[Len(fed')]>>, RawLimit)
        /\ ret' = Returned(fed'[Len(fed')])
        /\ ~panicked'

C5_FullChannel == [](raw = LastK(fed, RawLimit)) /\ [][C5_FullChannelStep]_vars

\* The last call of process found the ring buffer full (as many pushes as
\* the buffer holds, nothing popped, more calls than pushes) and evicted.
C5_Witness ==
    /\ op = "process"
    /\ Len(rb) = capacity
    /\ Len(pushed) = capacity
    /\ popped = <<>>
    /\ Len(fed) > RawLimit
    /\ Len(raw) = RawLimit
    /\ ret.kind = "frame"

(***************************************************************************)
(* C6.  get_sample called while nothing is queued returns the error (it    *)
(* neither panics nor waits) and changes neither the ring buffer nor the   *)
(* producer's state; called while a sample is queued it succeeds.          *)
(***************************************************************************)
C6_EmptyStep ==
    GetSampleStep =>
        /\ rb = <<>> =>
              /\ last_get' = ErrCommandQueueFull
              /\ UNCHANGED <<rb, raw, panicked, fed, ret, pushed, popped>>
        /\ rb # <<>> => last_get'.kind = "ok"

C6_EmptyGetSample == [][C6_EmptyStep]_vars

\* get_sample has just reported the error on a drained ring buffer, after
\* samples were published and taken and the producer had frames in its
\* window.
C6_Witness ==
    /\ op = "get_sample"
    /\ last_get = ErrCommandQueueFull
    /\ rb = <<>>
    /\ popped # <<>>
    /\ raw # <<>>

(***************************************************************************)
(* C7.  The samples get_sample has returned, followed by those still       *)
(* queued, are the samples pushed, in push order: every successful         *)
(* get_sample returns the oldest sample queued, each sample is returned at *)
(* most once, and none is returned that was not pushed.                    *)
(***************************************************************************)
C7_Fifo == pushed = popped \o rb

\* Two different samples were returned while another is queued, and more
\* samples were pushed than the ring buffer holds: process and get_sample
\* interleaved.
C7_Witness ==
    /\ Len(popped) >= 2
    /\ popped[1] # popped[2]
    /\ rb # <<>>
    /\ Len(pushed) > capacity

(***************************************************************************)
(* C8.  Scenario: N = 4, capacity 1, the frames (0,0), (1,1), (2,2),       *)
(* (3,3), (4,4) fed with no get_sample in between.  Then exactly one       *)
(* sample is queued and it is the window [(1,1), (2,2), (3,3), (4,4)], so  *)
(* that the first get_sample returns it and the second the error.          *)
(***************************************************************************)
C8_Scenario ==
    fed = ScenarioFrames(N + 1) /\ last_get = NoResult =>
        /\ Len(rb) = 1
        /\ IsSnapshotOf(rb[1], LastK(fed, N))

(***************************************************************************)
(* C9.  Overflow scenario: N = 4, capacity 1, 8 frames fed while the       *)
(* consumer does not drain.  Nothing crashes, at most one sample is ever   *)
(* queued, pushes on a full ring buffer are dropped, and what the consumer *)
(* then reads is the first sample published, followed by the error.        *)
(***************************************************************************)
C9_OverflowScenario ==
    /\ ~panicked
    /\ Len(rb) <= 1
    /\ Len(fed) = 8 /\ last_get = NoResult =>
          /\ pushed # <<>>
          /\ rb = <<pushed[1]>>

(***************************************************************************)
(* C10.  A call of process after whose append the window holds N frames    *)
(* and that finds a free slot in the ring buffer pushes exactly one        *)
(* sample, built from the window as it is right after the append; every    *)
(* other call of process pushes nothing.                                   *)
(***************************************************************************)
C10_PublishStep ==
    ProcessStep =>
        IF Len(raw') = N /\ Len(rb) < capacity
        THEN /\ Len(pushed') = Len(pushed) + 1
             /\ SubSeq(pushed', 1, Len(pushed)) = pushed
             /\ IsSnapshotOf(pushed'[Len(pushed')], raw')
             /\ rb' = Append(rb, pushed'[Len(pushed')])
        ELSE pushed' = pushed /\ rb' = rb

C10_PublishWhenFull == [][C10_PublishStep]_vars

(***************************************************************************)
(* C11.  The rolling window never holds more than N frames: an append that *)
(* would exceed N evicts the oldest frame, and the frames stay in arrival  *)
(* order with the newest at the tail.                                      *)
(***************************************************************************)
C11_WindowAtMostN == Len(raw) <= N /\ raw = LastK(fed, Len(raw))

(***************************************************************************)
(* C12.  Under every interleaving of process and get_sample the ring       *)
(* buffer holds between 0 and `capacity` samples, and a call of process    *)
(* that finds it at capacity neither enqueues nor displaces a sample.      *)
(***************************************************************************)
C12_AtCapacityStep == ProcessStep /\ Len(rb) >= capacity => rb' = rb

C12_Bounded == [](Len(rb) \in 0..capacity) /\ [][C12_AtCapacityStep]_vars

\* The buffer is at capacity again after samples were taken from it, and
\* process has been called more often than it pushed: a call found it full.
C12_Witness ==
    /\ op = "process"
    /\ Len(rb) = capacity
    /\ popped # <<>>
    /\ Len(fed) > Len(pushed)
    /\ ~panicked

(***************************************************************************)
(* C13.  A sample is an independent copy: a call of process changes no     *)
(* sample that is already queued, and the sample a get_sample returns is   *)
(* the value that was computed when it was pushed, however many frames     *)
(* were processed in between.                                              *)
(***************************************************************************)
C13_CopyStep ==
    /\ ProcessStep => Len(rb') >= Len(rb) /\ SubSeq(rb', 1, Len(rb)) = rb
    /\ GetSampleStep /\ last_get'.kind = "ok" =>
          /\ Len(pushed) > Len(popped)
          /\ last_get'.sample = pushed[Len(popped) + 1]

C13_IndependentCopy == [][C13_CopyStep]_vars

\* get_sample has returned the first sample pushed after every frame of the
\* behaviour was processed, and the window now gives other levels.
C13_Witness ==
    /\ op = "get_sample"
    /\ last_get.kind = "ok"
    /\ Len(popped) = 1
    /\ last_get.sample = pushed[1]
    /\ Len(fed) = MaxFrames
    /\ ComputeSample(raw) # last_get.sample

C15_ProcessStep ==
    ProcessStep => raw_capacity' = raw_capacity /\ allocations' = allocations

C15_NoAllocation == [][C15_ProcessStep]_vars

(***************************************************************************)
(* C16.  Every build call returns an effect and a handle joined by one     *)
(* channel of their own: with monitors built separately, the samples a     *)
(* handle returns are the samples pushed by the effect of the same build   *)
(* call, in the order of their push, and never a sample pushed by the      *)
(* effect of another build.                                                *)
(***************************************************************************)
C16_OwnChannel ==
    \A k \in 1..Len(handles) :
        /\ effects[k].sample_producer = handles[k].sample_consumer
        /\ IsPrefix(pair_popped[k], pair_pushed[k])
        /\ \A j \in 1..Len(effects) :
              j # k =>
                 /\ effects[j].sample_producer # handles[k].sample_consumer
                 /\ Range(pair_popped[k]) \cap Range(pair_pushed[j]) = {}

\* Two monitors are built, both effects have pushed and both handles have
\* returned a sample, while samples of the first effect are still queued.
C16_Witness ==
    /\ Len(handles) = 2
    /\ pair_popped[1] # <<>>
    /\ pair_popped[2] # <<>>
    /\ Len(pair_pushed[1]) > Len(pair_popped[1])
    /\ Len(channels[handles[1].sample_consumer]) = SAMPLE_CAPACITY - 2

(***************************************************************************)
(* C17.  When the effect is dropped while the handle is still polled,      *)
(* get_sample never panics: it returns the samples that were queued at the *)
(* drop, oldest first, and once they are taken every later get_sample      *)
(* returns the no-data error, forever (nothing is queued again).           *)
(***************************************************************************)
\* The samples get_sample returned since the effect was dropped.
TakenSinceDrop == SubSeq(popped, dropped_with.taken + 1, Len(popped))

C17_DroppedStep ==
    /\ ~effect_alive' =>
          /\ TakenSinceDrop' \o rb' = dropped_with'.queue
          /\ op' = "get_sample" => last_get'.kind \in {"ok", "err"}
    /\ ~effect_alive =>
          /\ ~effect_alive'
          /\ Len(rb') <= Len(rb)
          /\ GetSampleStep =>
                IF rb = <<>>
                THEN last_get' = ErrCommandQueueFull /\ rb' = <<>>
                ELSE last_get' = Ok(Head(rb)) /\ rb' = Tail(rb)

C17_ProducerDropped == [][C17_DroppedStep]_vars

\* The effect was dropped with two samples queued; get_sample has taken both
\* and then returned the error.
C17_Witness ==
    /\ ~effect_alive
    /\ Len(dropped_with.queue) >= 2
    /\ TakenSinceDrop = dropped_with.queue
    /\ op = "get_sample"
    /\ last_get = ErrCommandQueueFull

(***************************************************************************)
(* C18.  A successful get_sample removes exactly one sample, the head of   *)
(* the queue, and leaves the other queued samples, their order and the     *)
(* producer's state as they are.                                           *)
(***************************************************************************)
C18_PopStep ==
    GetSampleStep /\ rb # <<>> =>
        /\ last_get' = Ok(Head(rb))
        /\ rb' = Tail(rb)
        /\ popped' = Append(popped, Head(rb))
        /\ UNCHANGED <<raw, panicked, fed, ret, pushed>>

C18_PopsHeadOnly == [][C18_PopStep]_vars

\* get_sample has just succeeded and left two different samples queued,
\* with frames in the producer's window.
C18_Witness ==
    /\ op = "get_sample"
    /\ last_get.kind = "ok"
    /\ Len(rb) >= 2
    /\ rb[1] # rb[2]
    /\ raw # <<>>

(***************************************************************************)
(* C19.  Once the deferred commands of a frame are applied, the            *)
(* KiraPlayingSounds of an entity holds the handle of every sound that     *)
(* do_play_sys started in that frame for an event naming the entity (and   *)
(* that has not stopped meanwhile), for any number of events in the frame, *)
(* also when several events name one entity that has no component yet.     *)
(***************************************************************************)
\* The handles held by the KiraPlayingSounds of entity e.
HeldBy(e) == Range(playing_sounds[e].handles)

C19_HandlesAssociated ==
    sys = "apply" =>
        \A h \in 1..Len(started) :
            /\ started[h].tick = tick - 1
            /\ started[h].entity \in Entities
            /\ h \notin stopped
            => h \in HeldBy(started[h].entity)

(***************************************************************************)
(* C20.  KiraPlayingSounds is removed from an entity only when all its     *)
(* sounds have finished: in every order of do_play_sys and                 *)
(* cleanup_inactive_sounds_sys within a frame, applying the deferred       *)
(* commands takes the component away from an entity only if every handle   *)
(* the component holds belongs to a stopped sound.                         *)
(***************************************************************************)
C20_RemoveStep ==
    sys' = "apply" =>
        \A e \in Entities :
            playing_sounds[e].present /\ ~playing_sounds'[e].present =>
                HeldBy(e) \subseteq stopped

C20_RemovedWhenFinished == [][C20_RemoveStep]_vars

(***************************************************************************)
(* C21.  A run of cleanup_inactive_sounds_sys leaves in every              *)
(* KiraPlayingSounds exactly the handles whose sound is not stopped, in    *)
(* their former relative order (a handle is removed if and only if its     *)
(* state is Stopped), touches no entity without the component, and queues  *)
(* the removal of the component for exactly the entities whose list became *)
(* empty; applying the commands takes the component from those entities.   *)
(***************************************************************************)
\* The position of x in sequence s.
IndexOf(s, x) == CHOOSE i \in 1..Len(s) : s[i] = x

\* Sequence t holds elements of s, each once, in the order they have in s.
KeepsOrder(t, s) ==
    /\ Range(t) \subseteq Range(s)
    /\ \A i, j \in 1..Len(t) : i < j => IndexOf(s, t[i]) < IndexOf(s, t[j])

C21_CleanupStep ==
    /\ sys' = "cleanup" =>
          \A e \in Entities :
              IF playing_sounds[e].present
              THEN /\ playing_sounds'[e].present
                   /\ Range(playing_sounds'[e].handles) = HeldBy(e) \ stopped
                   /\ KeepsOrder(playing_sounds'[e].handles, playing_sounds[e].handles)
                   /\ RemoveCommand(e) \in Range(commands'.cleanup)
                         <=> playing_sounds'[e].handles = <<>>
              ELSE /\ playing_sounds'[e] = playing_sounds[e]
                   /\ RemoveCommand(e) \notin Range(commands'.cleanup)
    /\ sys' = "apply" =>
          \A e \in Entities :
              RemoveCommand(e) \in Range(commands.cleanup)
                  => ~playing_sounds'[e].present

C21_CleanupRetains == [][C21_CleanupStep]_vars

\* cleanup has run on an entity holding a stopped and a playing sound, of
\* which it kept the playing one, and on an entity whose only sound had
\* stopped, for which it queued the removal.
C21_Witness ==
    /\ sys = "cleanup"
    /\ stopped = {1, 2}
    /\ playing_sounds[1] = KiraPlayingSounds(<<3>>)
    /\ playing_sounds[2] = KiraPlayingSounds(<<>>)
    /\ commands.cleanup = <<RemoveCommand(2)>>

(***************************************************************************)
(* C22.  do_play_sys plays a sound on the main track exactly when the      *)
(* event's track_entity is None; with a track_entity the sound is played   *)
(* on that entity's track and never on the main track.                     *)
(***************************************************************************)
C22_TrackChoice ==
    \A i \in 1..Len(play_calls) :
        /\ play_calls[i].on = "main" <=> play_calls[i].track = "none"
        /\ play_calls[i].track = "found" => play_calls[i].on = "track"

\* Two sounds were started in one frame, one on the main track and one on
\* the track of the event's track_entity.
C22_Witness ==
    \E i, j \in 1..Len(play_calls) :
        /\ play_calls[i].ok /\ play_calls[i].on = "main"
        /\ play_calls[j].ok /\ play_calls[j].on = "track"
        /\ play_calls[i].tick = play_calls[j].tick

(***************************************************************************)
(* C23.  An event whose track_entity has no KiraTrackHandle affects only   *)
(* itself: every other event pending in the same frame is still played by  *)
(* do_play_sys.                                                            *)
(***************************************************************************)
\* The ids of the events kira.play was called for.
PlayedIds(calls) == {calls[i].id : i \in 1..Len(calls)}

C23_OthersPlayedStep ==
    sys' = "do_play" =>
        \A i \in 1..Len(ev_play) :
            ev_play[i].track # "missing" => ev_play[i].id \in PlayedIds(play_calls')

C23_MissingTrackIsolated == [][C23_OthersPlayedStep]_vars

(***************************************************************************)
(* C24.  An event for which KiraContext::play returns an error changes no  *)
(* KiraPlayingSounds and queues no command: the run of do_play_sys has the *)
(* effect it has on the same events without the refused ones, and the      *)
(* events after a refused one are still handed to kira.play.               *)
(***************************************************************************)
\* The events of evs except those kira.play is called for and refuses.
WithoutRefused(evs) ==
    SelectSeq(evs, LAMBDA ev : ev.playable \/ ev.track = "missing")

\* No event of evs up to index j fails the track lookup.
ReachedByLoop(evs, j) == \A k \in 1..j : evs[k].track # "missing"

C24_PlayErrorStep ==
    sys' = "do_play" =>
        /\ LET w == PlayEvents(WithoutRefused(ev_play),
                               [sounds |-> playing_sounds,
                                cmds |-> commands.do_play,
                                started |-> started, calls |-> play_calls],
                               tick, manager)
           IN  /\ playing_sounds' = w.sounds
               /\ commands'.do_play = w.cmds
               /\ started' = w.started
        /\ \A j \in 1..Len(ev_play) :
              ReachedByLoop(ev_play, j) => ev_play[j].id \in PlayedIds(play_calls')
        /\ Len(started') - Len(started) =
              Cardinality({j \in 1..Len(ev_play) :
                              ReachedByLoop(ev_play, j) /\ ev_play[j].playable})

C24_PlayErrorSkipped == [][C24_PlayErrorStep]_vars

\* do_play_sys has run on a refused event followed by one that was started:
\* the last two calls of kira.play are of this frame, the first failed and
\* the second gave the only handle, which is queued for insertion alone.
C24_Witness ==
    /\ sys = "do_play"
    /\ Len(play_calls) = 2
    /\ ~play_calls[1].ok
    /\ play_calls[2].ok
    /\ play_calls[1].tick = play_calls[2].tick
    /\ Len(started) = 1
    /\ commands.do_play = <<InsertCommand(1, 1)>>

(***************************************************************************)
(* C25.  Without an audio manager KiraContext::default still gives a       *)
(* context; play, add_clock, add_track and get_manager return an error     *)
(* (never a panic) and leave the context as it is, and do_play_sys         *)
(* associates no handle with any entity.                                   *)
(***************************************************************************)
C25_NoManager ==
    /\ ~manager
    /\ ctx_result \in {"none", "err"}
    /\ \A i \in 1..Len(play_calls) :
          ~play_calls[i].ok /\ play_calls[i].on = "nowhere"
    /\ started = <<>>
    /\ commands = NoCommands
    /\ \A e \in Entities : playing_sounds[e] = NoComponent

\* A frame has passed in which kira.play was called and failed, and a
\* direct call of get_manager has returned the error.
C25_Witness ==
    /\ sys = "get_manager"
    /\ ctx_result = "err"
    /\ tick >= 1
    /\ play_calls # <<>>
    /\ play_calls[1].track = "none"

(***************************************************************************)
(* C26.  Every KiraPlaySoundEvent written leads to at most one call of     *)
(* KiraContext::play over any number of frames: do_play_sys leaves the     *)
(* event queue empty, so no event is handled again in a later frame.       *)
(***************************************************************************)
C26_DrainStep ==
    /\ sys' = "do_play" => ev_play' = <<>>
    /\ \A i, j \in 1..Len(play_calls') :
          i # j => play_calls'[i].id # play_calls'[j].id
    /\ PlayedIds(play_calls') \subseteq 1..ev_written'

C26_PlayedAtMostOnce == [][C26_DrainStep]_vars

\* do_play_sys has run in a second frame after it called kira.play in the
\* first, and has called it again for an event written since.
C26_Witness ==
    /\ sys = "do_play"
    /\ tick = 1
    /\ \E i, j \in 1..Len(play_calls) :
          play_calls[i].tick = 0 /\ play_calls[j].tick = 1


(***************************************************************************)
(* The drum machine.                                                       *)
(***************************************************************************)
\* Bit k of the 16-bit value p, bit 0 the rightmost digit.
Bit(p, k) == (p \div (2 ^ k)) % 2

\* The events playback_sys has written for a channel on a tick.
WrittenFor(chan, t, e) ==
    { i \in 1..Len(drum_events) :
        /\ drum_events[i].chan = chan
        /\ drum_events[i].tick = t
        /\ drum_events[i].epoch = e }

\* Whether a run found the tick it read already recorded for the channel.
SameTick(r) == r.recorded.seen /\ r.recorded.tick = r.clock_ticks

(***************************************************************************)
(* C27: for each channel and each value of the tick counter, playback_sys  *)
(* writes at most one play event, however many times it runs while the     *)
(* clock stays on that tick; a run that finds the tick already recorded    *)
(* for the channel writes nothing for it.                                  *)
(***************************************************************************)
C27_OneEventPerTick ==
    /\ \A chan \in DrumChannels : \A t \in 0..(MaxClock + 1) : \A e \in 0..1 :
           Cardinality(WrittenFor(chan, t, e)) <= 1
    /\ \A chan \in DrumChannels :
           (last_run[chan].visited /\ SameTick(last_run[chan]))
               => last_run[chan].events = <<>>

\* playback_sys ran again on the tick it had written the kick for, with the
\* sound loaded and the step set, and wrote nothing more.
C27_Witness ==
    /\ runs = 2
    /\ SameTick(last_run[1])
    /\ assets[1]
    /\ ChannelPattern(1)[NextPlayStep(last_run[1].clock_ticks)]
    /\ Cardinality(WrittenFor(1, last_run[1].clock_ticks, epoch)) = 1

(***************************************************************************)
(* C28: when a run of playback_sys reads a tick t other than the one       *)
(* recorded for a channel, it writes one play event for the channel        *)
(* exactly when step (t mod 16) of the channel's pattern is set and the    *)
(* channel's sound is loaded; the start time of the sound is the clock     *)
(* time read for it plus one tick; and t is recorded for the channel       *)
(* whether or not the event was written, so that a later run on the same   *)
(* tick writes nothing even when the asset has loaded meanwhile.           *)
(***************************************************************************)
C28_PlaybackStep ==
    (runs' = runs + 1) =>
        \A chan \in DrumChannels :
            LET r == last_run'[chan]
                t == r.clock_ticks
            IN  /\ r.recorded = last_ticks[chan]
                /\ ~SameTick(r) =>
                      /\ (r.events # <<>>) <=>
                            (ChannelPattern(chan)[t % 16] /\ assets[chan])
                      /\ Len(r.events) <= 1
                      /\ \A i \in 1..Len(r.events) :
                            /\ r.events[i].start_time = r.time + 1
                            /\ r.events[i].entity = chan
                            /\ r.events[i].track_entity = chan
                      /\ r.time \in {t, t + 1}
                      /\ last_ticks'[chan] = Seen(t)
                /\ SameTick(r) =>
                      /\ r.events = <<>>
                      /\ last_ticks'[chan] = last_ticks[chan]

C28_StepPlayedWhenSetAndLoaded == [][C28_PlaybackStep]_vars

\* In one run the kick, whose step was set on a tick on which its sound was
\* not loaded yet, is not played for that tick now that the sound is loaded,
\* and the hat is played on the next tick with a start time one tick after
\* the clock time.
C28_Witness ==
    /\ runs = 2
    /\ SameTick(last_run[1])
    /\ assets[1]
    /\ ChannelPattern(1)[last_run[1].clock_ticks % 16]
    /\ WrittenFor(1, last_run[1].clock_ticks, epoch) = {}
    /\ ~SameTick(last_run[2])
    /\ Len(last_run[2].events) = 1
    /\ last_run[2].events[1].start_time = clock + 1

(***************************************************************************)
(* C29: a run of playback_sys that goes past the test of the recorded tick *)
(* warns of a missed tick exactly when the tick it read is more than one   *)
(* above the tick recorded for the channel; it does not warn when nothing  *)
(* is recorded for the channel, and the subtraction never goes below zero, *)
(* also when the tick read is lower than the recorded one.                 *)
(***************************************************************************)
C29_MissedTickWarning ==
    \A chan \in DrumChannels :
        LET r == last_run[chan]
        IN  r.visited =>
                /\ r.warned <=>
                      (r.recorded.seen /\ r.clock_ticks > r.recorded.tick + 1)
                /\ ~r.recorded.seen => ~r.warned
                /\ ~r.underflow
                /\ (r.recorded.seen /\ r.clock_ticks < r.recorded.tick)
                      => (~r.warned /\ ~r.underflow /\ ~r.skipped)

\* The clock advanced during the first run, so the two channels recorded
\* consecutive ticks; in the second run the kick is two ticks behind and
\* warns, the hat is one tick behind and does not.
C29_Witness ==
    /\ runs = 2
    /\ last_run[1].recorded.seen
    /\ last_run[1].clock_ticks = last_run[1].recorded.tick + 2
    /\ last_run[1].warned
    /\ last_run[2].recorded.seen
    /\ last_run[2].clock_ticks = last_run[2].recorded.tick + 1
    /\ ~last_run[2].warned

\* A run that reads a tick below the recorded one (the clock restarted):
\* no warning, no underflow.
C29_LowerTickReached ==
    \E chan \in DrumChannels :
        /\ last_run[chan].recorded.seen
        /\ last_run[chan].clock_ticks < last_run[chan].recorded.tick
        /\ ~last_run[chan].warned

(***************************************************************************)
(* C30: converting a DefaultPattern to a DrumPattern sets steps[i] to bit  *)
(* (15 - i) of the 16-bit value, for every i in 0..15 and every 16-bit     *)
(* value: the leftmost binary digit is step 0, the rightmost step 15.      *)
(***************************************************************************)
C30_StepsAreBitsFromTheLeft ==
    (drum_sys = "from") =>
        /\ DOMAIN drum_pattern = 0..15
        /\ \A i \in 0..15 :
               drum_pattern[i] <=> (Bit(default_pattern, 15 - i) = 1)

\* 0b1001_0000_1001_0000 converted: steps 0, 3, 8 and 11 and no other.
C30_Witness ==
    /\ drum_sys = "from"
    /\ default_pattern = DEFAULT_KICK
    /\ { i \in 0..15 : drum_pattern[i] } = {0, 3, 8, 11}


(***************************************************************************)
(* The monitor run without end.                                            *)
(***************************************************************************)
\* The last call was a get_sample that returned a sample.
GetSampleSucceeded == op = "get_sample" /\ last_get.kind = "ok"

(***************************************************************************)
(* C31: when process keeps being called and get_sample keeps being called  *)
(* (fairness on both sides), get_sample succeeds infinitely often: the     *)
(* consumer is never starved forever.                                      *)
(***************************************************************************)
C31_NeverStarved == []<>GetSampleSucceeded

\* In a build without overflow checks the consumer is never starved: an
\* empty ring buffer is filled again by a later call of process, and
\* get_sample succeeds infinitely often.
C31_NeverStarvedWithoutChecks ==
    (~overflow_checks) =>
        /\ []<>GetSampleSucceeded
        /\ (rb = <<>>) ~> (rb # <<>>)

\* In a build with overflow checks the first call of process panics and
\* get_sample never succeeds.
C31_StarvedWithChecks == overflow_checks => [](last_get.kind # "ok")

====
